---- MODULE Spec2Model ----
(***************************************************************************)
(* Model of the upload-multiple-artifacts action (src/index.js).           *)
(*                                                                         *)
(* Strings are sequences of one-character strings, so that split, join,    *)
(* trim, normalize and dirname are computed and not assumed.  Paths are    *)
(* POSIX paths (path.sep = "/"), the platform of the action's runners.     *)
(***************************************************************************)
EXTENDS Integers, Sequences, FiniteSets, TLC

(***************************************************************************)
(* Bounds of the model.                                                    *)
(***************************************************************************)
MaxDefs == 2
MaxPats == 2

(***************************************************************************)
(* Generic sequence helpers.                                               *)
(***************************************************************************)
Range(s) == {s[i] : i \in 1..Len(s)}

Last(s) == s[Len(s)]

Front(s) == SubSeq(s, 1, Len(s) - 1)

\* Array.from(new Set(xs)): first occurrences, in order.
RECURSIVE UniqueFrom(_, _)
UniqueFrom(xs, seen) ==
    IF Len(xs) = 0 THEN <<>>
    ELSE IF xs[1] \in seen THEN UniqueFrom(Tail(xs), seen)
    ELSE <<xs[1]>> \o UniqueFrom(Tail(xs), seen \cup {xs[1]})

(***************************************************************************)
(* Strings and node's path module, POSIX flavour.                          *)
(***************************************************************************)
Sep == "/"

RECURSIVE SplitFrom(_, _, _)
SplitFrom(s, i, cur) ==
    IF i > Len(s) THEN <<cur>>
    ELSE IF s[i] = Sep THEN <<cur>> \o SplitFrom(s, i + 1, <<>>)
    ELSE SplitFrom(s, i + 1, Append(cur, s[i]))

\* s.split(path.sep)
Split(s) == SplitFrom(s, 1, <<>>)

\* parts.join(path.sep)
RECURSIVE Join(_)
Join(parts) ==
    IF Len(parts) = 0 THEN <<>>
    ELSE IF Len(parts) = 1 THEN parts[1]
    ELSE parts[1] \o <<Sep>> \o Join(Tail(parts))

RECURSIVE TrimLeft(_)
TrimLeft(s) == IF Len(s) > 0 /\ s[1] = " " THEN TrimLeft(Tail(s)) ELSE s

RECURSIVE TrimRight(_)
TrimRight(s) == IF Len(s) > 0 /\ Last(s) = " " THEN TrimRight(Front(s)) ELSE s

\* String.prototype.trim
Trim(s) == TrimRight(TrimLeft(s))

\* path.isAbsolute
IsAbsolute(p) == Len(p) > 0 /\ p[1] = Sep

\* normalizeString of node's path: drops "" and ".", resolves "..".
RECURSIVE NormSegs(_, _, _)
NormSegs(segs, acc, allowAbove) ==
    IF Len(segs) = 0 THEN acc
    ELSE LET s == segs[1] rest == Tail(segs) IN
         IF s = <<>> \/ s = <<".">> THEN NormSegs(rest, acc, allowAbove)
         ELSE IF s = <<".", ".">> THEN
              IF Len(acc) > 0 /\ Last(acc) # <<".", ".">>
                  THEN NormSegs(rest, Front(acc), allowAbove)
              ELSE IF allowAbove THEN NormSegs(rest, Append(acc, s), allowAbove)
              ELSE NormSegs(rest, acc, allowAbove)
         ELSE NormSegs(rest, Append(acc, s), allowAbove)

NormalizeBody(abs, trailing, body) ==
    IF Len(body) = 0
    THEN (IF abs THEN <<Sep>> ELSE IF trailing THEN <<".", Sep>> ELSE <<".">>)
    ELSE (IF abs THEN <<Sep>> ELSE <<>>) \o body \o (IF trailing THEN <<Sep>> ELSE <<>>)

\* path.normalize
Normalize(p) ==
    IF Len(p) = 0 THEN <<".">>
    ELSE NormalizeBody(IsAbsolute(p), Last(p) = Sep,
                       Join(NormSegs(Split(p), <<>>, ~IsAbsolute(p))))

\* path.join(a, b)
PathJoin(a, b) ==
    IF Len(a) = 0 /\ Len(b) = 0 THEN <<".">>
    ELSE Normalize(IF Len(a) = 0 THEN b ELSE IF Len(b) = 0 THEN a ELSE a \o <<Sep>> \o b)

\* path.resolve(p) with the process working directory cwd.
PathResolve(cwd, p) ==
    <<Sep>> \o Join(NormSegs(Split(IF IsAbsolute(p) THEN p ELSE cwd \o <<Sep>> \o p),
                             <<>>, FALSE))

\* Index of the last separator that ends the directory part, 0 when none.
RECURSIVE DirEnd(_, _, _)
DirEnd(p, i, matchedSlash) ==
    IF i < 2 THEN 0
    ELSE IF p[i] = Sep
         THEN (IF ~matchedSlash THEN i ELSE DirEnd(p, i - 1, matchedSlash))
         ELSE DirEnd(p, i - 1, FALSE)

DirnameAt(p, end) ==
    IF end = 0 THEN (IF p[1] = Sep THEN <<Sep>> ELSE <<".">>)
    ELSE IF p[1] = Sep /\ end = 2 THEN <<Sep, Sep>>
    ELSE SubSeq(p, 1, end - 1)

\* path.dirname
Dirname(p) == IF Len(p) = 0 THEN <<".">> ELSE DirnameAt(p, DirEnd(p, Len(p), TRUE))

\* path.basename of a normalized path
Basename(p) == Last(Split(p))

\* path.parse(p).root
ParseRoot(p) == IF IsAbsolute(p) THEN <<Sep>> ELSE <<>>

(***************************************************************************)
(* The filesystem: a sequence of nodes, in directory-listing order.  A     *)
(* node is [path, type, target, readable]; type is "dir", "file",          *)
(* "symlink" (target: the real path it points to) or "other" (socket,      *)
(* device); readable is the r permission bit of the node.                  *)
(***************************************************************************)
Node(p, t, tg, r) == [path |-> p, type |-> t, target |-> tg, readable |-> r]

RootDir == <<"/">>
Workspace == <<"/", "w">>

\* The tree every modelled filesystem shares.  withLinks adds the symbolic
\* links a/l -> /t (a directory) and a/j -> /t/h (a file); subReadable is
\* the r bit of the subdirectory a/s.
FsTree(withLinks, subReadable) ==
    << Node(RootDir, "dir", <<>>, TRUE),
       Node(<<"/", "w">>, "dir", <<>>, TRUE),
       Node(<<"/", "w", "/", "a">>, "dir", <<>>, TRUE),
       Node(<<"/", "w", "/", "a", "/", "f">>, "file", <<>>, TRUE),
       Node(<<"/", "w", "/", "a", "/", "s">>, "dir", <<>>, subReadable),
       Node(<<"/", "w", "/", "a", "/", "s", "/", "g">>, "file", <<>>, TRUE),
       Node(<<"/", "w", "/", "e">>, "dir", <<>>, TRUE),
       Node(<<"/", "w", "/", "e", "/", "d">>, "dir", <<>>, TRUE),
       Node(<<"/", "w", "/", "k">>, "other", <<>>, TRUE),
       Node(<<"/", "w", "/", "u">>, "file", <<>>, FALSE),
       Node(<<"/", "t">>, "dir", <<>>, TRUE),
       Node(<<"/", "t", "/", "h">>, "file", <<>>, TRUE) >>
    \o (IF withLinks
        THEN << Node(<<"/", "w", "/", "a", "/", "l">>, "symlink", <<"/", "t">>, TRUE),
                Node(<<"/", "w", "/", "a", "/", "j">>, "symlink",
                     <<"/", "t", "/", "h">>, TRUE) >>
        ELSE <<>>)

FsChoices == {FsTree(l, r) : l \in BOOLEAN, r \in BOOLEAN}

Exists(fs, p) == \E i \in 1..Len(fs) : fs[i].path = p

NodeAt(fs, p) == fs[CHOOSE i \in 1..Len(fs) : fs[i].path = p]

ChildPath(dir, name) == IF dir = RootDir THEN RootDir \o name ELSE dir \o <<Sep>> \o name

NoEntry == [ok |-> FALSE, path |-> <<>>]

\* The kernel's path walk from the real directory cur along segs; the last
\* component is followed through a symbolic link only when followLast.
RECURSIVE WalkSegs(_, _, _, _)

WalkReal(fs, real, rest, followLast, isLast) ==
    IF ~Exists(fs, real) THEN NoEntry
    ELSE IF isLast THEN [ok |-> TRUE, path |-> real]
    ELSE IF NodeAt(fs, real).type = "dir" THEN WalkSegs(fs, real, rest, followLast)
    ELSE NoEntry

WalkNode(fs, n, rest, followLast, isLast) ==
    WalkReal(fs, IF n.type = "symlink" /\ (~isLast \/ followLast) THEN n.target ELSE n.path,
             rest, followLast, isLast)

WalkChild(fs, child, rest, followLast) ==
    IF ~Exists(fs, child) THEN NoEntry
    ELSE WalkNode(fs, NodeAt(fs, child), rest, followLast,
                  \A i \in 1..Len(rest) : rest[i] = <<>>)

WalkSegs(fs, cur, segs, followLast) ==
    IF Len(segs) = 0 THEN [ok |-> TRUE, path |-> cur]
    ELSE IF segs[1] = <<".", ".">>
         THEN WalkSegs(fs, Dirname(cur), Tail(segs), followLast)
    ELSE IF segs[1] = <<>> \/ segs[1] = <<".">>
         THEN WalkSegs(fs, cur, Tail(segs), followLast)
    ELSE WalkChild(fs, ChildPath(cur, segs[1]), Tail(segs), followLast)

Walk(fs, p, followLast) == WalkSegs(fs, RootDir, Split(p), followLast)

Listing(kids) ==
    [i \in 1..Len(kids) |->
        [name |-> Basename(kids[i].path), type |-> kids[i].type,
         target |-> kids[i].target]]

ReaddirNode(fs, n) ==
    IF n.type # "dir" THEN [err |-> "ENOTDIR", entries |-> <<>>]
    ELSE IF ~n.readable THEN [err |-> "EACCES", entries |-> <<>>]
    ELSE LET IsChild(m) == m.path # n.path /\ Dirname(m.path) = n.path
         IN [err |-> "", entries |-> Listing(SelectSeq(fs, IsChild))]

ReaddirAt(fs, r) ==
    IF ~r.ok THEN [err |-> "ENOENT", entries |-> <<>>]
    ELSE ReaddirNode(fs, NodeAt(fs, r.path))

\* fs.promises.readdir(p, {withFileTypes: true}): the entries carry the
\* type of the entry itself (a symbolic link is a link, not its target).
Readdir(fs, p) == ReaddirAt(fs, Walk(fs, p, TRUE))

AccessAt(fs, r) == r.ok /\ NodeAt(fs, r.path).readable

\* pathExists: fs.promises.access(p, R_OK), errors caught.
pathExists(fs, p) == AccessAt(fs, Walk(fs, p, TRUE))

LstatAt(fs, r) ==
    IF r.ok THEN [ok |-> TRUE, type |-> NodeAt(fs, r.path).type]
    ELSE [ok |-> FALSE, type |-> "none"]

\* statSafe: fs.promises.lstat(p), null on error.
statSafe(fs, p) == LstatAt(fs, Walk(fs, p, FALSE))

\* path.join(current, entry.name) of the entries of one type, in order.
FullPaths(joined, entries, type) ==
    LET Is(i) == entries[i].type = type
        at == SelectSeq([i \in 1..Len(entries) |-> i], Is)
    IN [k \in 1..Len(at) |-> joined[at[k]]]

RECURSIVE CollectLoop(_, _, _)

CollectPush(fs, stack, files, joined, entries) ==
    CollectLoop(fs, stack \o FullPaths(joined, entries, "dir"),
                files \o FullPaths(joined, entries, "file"))

CollectEntries(fs, stack, files, current, rd) ==
    IF rd.err # "" THEN [threw |-> TRUE, files |-> <<>>]
    ELSE CollectPush(fs, stack, files,
                     [i \in 1..Len(rd.entries) |-> PathJoin(current, rd.entries[i].name)],
                     rd.entries)

\* The while loop of collectFilesFromDirectory: one turn pops a directory.
CollectLoop(fs, stack, files) ==
    IF Len(stack) = 0 THEN [threw |-> FALSE, files |-> files]
    ELSE CollectEntries(fs, Front(stack), files, Last(stack), Readdir(fs, Last(stack)))

collectFilesFromDirectory(fs, dirPath) == CollectLoop(fs, <<dirPath>>, <<>>)

GlobChars == {"*", "?", "[", "]", "{", "}", "(", ")", "!"}

hasGlobChars(p) == \E i \in 1..Len(p) : p[i] \in GlobChars

(***************************************************************************)
(* fast-glob, for patterns whose wildcard segments are "*" and "**".       *)
(***************************************************************************)
RECURSIVE StaticLen(_)
StaticLen(segs) ==
    IF Len(segs) = 0 \/ hasGlobChars(segs[1]) THEN 0 ELSE 1 + StaticLen(Tail(segs))

Globstar == <<"*", "*">>

RECURSIVE GlobMatch(_, _)
GlobMatch(pat, segs) ==
    IF Len(pat) = 0 THEN Len(segs) = 0
    ELSE IF pat[1] = Globstar
         THEN GlobMatch(Tail(pat), segs)
              \/ (Len(segs) > 0 /\ GlobMatch(pat, Tail(segs)))
    ELSE /\ Len(segs) > 0
         /\ (pat[1] = <<"*">> \/ pat[1] = segs[1])
         /\ GlobMatch(Tail(pat), Tail(segs))

\* The type fast-glob sees with followSymbolicLinks: that of the link's target.
StatType(fs, e) ==
    IF e.type # "symlink" THEN e.type
    ELSE IF Exists(fs, e.target) THEN NodeAt(fs, e.target).type
    ELSE "symlink"

\* The directory walk of fast-glob: linked directories are entered, ENOENT
\* is suppressed and any other error is thrown.
RECURSIVE FgScan(_, _, _, _)
RECURSIVE FgEach(_, _, _, _, _)

FgCombine(e, rel, sub, rest) ==
    [threw |-> sub.threw \/ rest.threw,
     entries |-> <<[path |-> e.path, rel |-> rel, type |-> e.type]>>
                 \o sub.entries \o rest.entries]

FgEach(fs, rel, pat, deep, es) ==
    IF Len(es) = 0 THEN [threw |-> FALSE, entries |-> <<>>]
    ELSE FgCombine(es[1], Append(rel, es[1].name),
                   IF es[1].type = "dir" /\ deep
                   THEN FgScan(fs, es[1].path, Append(rel, es[1].name), pat)
                   ELSE [threw |-> FALSE, entries |-> <<>>],
                   FgEach(fs, rel, pat, deep, Tail(es)))

FgScanDir(fs, disp, rel, pat, rd) ==
    IF rd.err = "ENOENT" THEN [threw |-> FALSE, entries |-> <<>>]
    ELSE IF rd.err # "" THEN [threw |-> TRUE, entries |-> <<>>]
    ELSE FgEach(fs, rel, pat,
                (\E i \in 1..Len(pat) : pat[i] = Globstar) \/ Len(rel) + 1 < Len(pat),
                [i \in 1..Len(rd.entries) |->
                    [path |-> PathJoin(disp, rd.entries[i].name),
                     name |-> rd.entries[i].name,
                     type |-> StatType(fs, rd.entries[i])]])

FgScan(fs, disp, rel, pat) == FgScanDir(fs, disp, rel, pat, Readdir(fs, disp))

FgSelect(sc, pat, kind) ==
    LET Hit(e) == e.type = kind /\ GlobMatch(pat, e.rel)
        Paths(hits) == [i \in 1..Len(hits) |-> hits[i].path]
    IN [threw |-> sc.threw, paths |-> UniqueFrom(Paths(SelectSeq(sc.entries, Hit)), {})]

\* The pattern as fast-glob splits it: the static base directory, then the
\* segments that are matched below it.
FgTask(fs, base, pat, kind) ==
    FgSelect(FgScan(fs, IF Len(base) = 0 THEN RootDir ELSE base, <<>>, pat), pat, kind)

FgSegs(fs, segs, static, kind) ==
    FgTask(fs, Join(SubSeq(segs, 1, static)), SubSeq(segs, static + 1, Len(segs)), kind)

\* fg(abs, {dot, onlyFiles | onlyDirectories, followSymbolicLinks, unique, absolute})
fg(fs, abs, kind) == FgSegs(fs, Split(abs), StaticLen(Split(abs)), kind)

(***************************************************************************)
(* resolveInputPathsToFiles.  A warning is <<kind, input>>.                *)
(***************************************************************************)
Threw(warns) == [threw |-> TRUE, files |-> <<>>, warns |-> warns]

Added(files, warns) == [threw |-> FALSE, files |-> files, warns |-> warns]

Warn(kind, input) == << <<kind, input>> >>

RECURSIVE CollectAll(_, _)

CollectMore(c, r) ==
    IF c.threw \/ r.threw THEN [threw |-> TRUE, files |-> <<>>]
    ELSE [threw |-> FALSE, files |-> c.files \o r.files]

\* The for loop over dirMatches.
CollectAll(fs, dirs) ==
    IF Len(dirs) = 0 THEN [threw |-> FALSE, files |-> <<>>]
    ELSE CollectMore(collectFilesFromDirectory(fs, dirs[1]), CollectAll(fs, Tail(dirs)))

ResolveWalked(input, fileMatches, dirMatches, walked) ==
    IF walked.threw THEN Threw(<<>>)
    ELSE Added(walked.files \o fileMatches.paths,
               IF Len(fileMatches.paths) = 0 /\ Len(dirMatches.paths) = 0
               THEN Warn("GlobNoMatch", input) ELSE <<>>)

ResolveGlob(fs, input, fileMatches, dirMatches) ==
    IF fileMatches.threw \/ dirMatches.threw THEN Threw(<<>>)
    ELSE ResolveWalked(input, fileMatches, dirMatches, CollectAll(fs, dirMatches.paths))

ResolveDir(input, dirFiles) ==
    IF dirFiles.threw THEN Threw(<<>>)
    ELSE Added(dirFiles.files,
               IF Len(dirFiles.files) = 0 THEN Warn("EmptyDir", input) ELSE <<>>)

ResolveStat(fs, input, abs, st) ==
    IF ~st.ok THEN Added(<<>>, Warn("NoStat", input))
    ELSE IF st.type = "dir" THEN ResolveDir(input, collectFilesFromDirectory(fs, abs))
    ELSE IF st.type = "file" THEN Added(<<abs>>, <<>>)
    ELSE Added(<<>>, Warn("NotRegular", input))

ResolveAbs(fs, input, abs) ==
    IF hasGlobChars(abs)
    THEN ResolveGlob(fs, input, fg(fs, abs, "file"), fg(fs, abs, "dir"))
    ELSE IF ~pathExists(fs, abs) THEN Added(<<>>, Warn("NotFound", input))
    ELSE ResolveStat(fs, input, abs, statSafe(fs, abs))

\* One turn of the for loop: the files and warnings one input adds.
ResolveOne(fs, workspace, input) ==
    ResolveAbs(fs, input, IF IsAbsolute(input) THEN input ELSE PathJoin(workspace, input))

RECURSIVE ResolveLoop(_, _, _, _, _)

ResolveNext(fs, workspace, rest, files, warns, one) ==
    IF one.threw THEN Threw(warns)
    ELSE ResolveLoop(fs, workspace, rest, files \o one.files, warns \o one.warns)

ResolveLoop(fs, workspace, inputs, files, warns) ==
    IF Len(inputs) = 0 THEN Added(files, warns)
    ELSE ResolveNext(fs, workspace, Tail(inputs), files, warns,
                     ResolveOne(fs, workspace, inputs[1]))

\* UniqueNormalized with the two steps swapped: de-duplicate, then normalize.
UniqueNormalized_DedupFirst(r) ==
    IF r.threw THEN r
    ELSE LET u == UniqueFrom(r.files, {})
         IN Added([i \in 1..Len(u) |-> Normalize(u[i])], r.warns)

\* De-duplicate and normalize.
UniqueNormalized(r) ==
    IF r.threw THEN r
    ELSE Added(UniqueFrom([i \in 1..Len(r.files) |-> Normalize(r.files[i])], {}), r.warns)

resolveInputPathsToFiles(fs, workspace, inputPaths) ==
    UniqueNormalized(ResolveLoop(fs, workspace, inputPaths, <<>>, <<>>))

(***************************************************************************)
(* computeCommonRootDirectory, with cwd the value of process.cwd().        *)
(***************************************************************************)
MinLen(arrs) == CHOOSE n \in {Len(arrs[i]) : i \in 1..Len(arrs)} :
                    \A i \in 1..Len(arrs) : n <= Len(arrs[i])

\* The for loop over i < minLen, stopping at the first disagreement.
RECURSIVE CommonParts(_, _, _)
CommonParts(splitPaths, i, minLen) ==
    IF i > minLen THEN <<>>
    ELSE IF \A k \in 1..Len(splitPaths) : splitPaths[k][i] = splitPaths[1][i]
         THEN <<splitPaths[1][i]>> \o CommonParts(splitPaths, i + 1, minLen)
    ELSE <<>>

CommonOr(common, cwd) == IF Len(common) > 0 THEN common ELSE cwd

CommonOf(cwd, commonParts, fallback) ==
    CommonOr(IF Len(commonParts) > 0 THEN Join(commonParts)
             ELSE IF Len(ParseRoot(fallback)) > 0 THEN ParseRoot(fallback)
             ELSE fallback,
             cwd)

CommonSplit(cwd, splitPaths, fallback) ==
    CommonOf(cwd, CommonParts(splitPaths, 1, MinLen(splitPaths)), fallback)

computeCommonRootDirectory(cwd, filePaths) ==
    IF Len(filePaths) = 0 THEN cwd
    ELSE CommonSplit(cwd,
             [i \in 1..Len(filePaths) |-> Split(Dirname(PathResolve(cwd, filePaths[i])))],
             Dirname(PathResolve(cwd, filePaths[1])))

(***************************************************************************)
(* Parsed JSON values: [t, s, n, items], t telling the kind of value.       *)
(* A config entry is [v, keys, name, path]: v is the entry as a value,     *)
(* keys is Object.keys(item).length, name and path are item.name and        *)
(* item.path.                                                              *)
(***************************************************************************)
JV(t, s, n, items) == [t |-> t, s |-> s, n |-> n, items |-> items]

JUndef == JV("undefined", <<>>, 0, <<>>)
JNull == JV("null", <<>>, 0, <<>>)
JStr(s) == JV("string", s, 0, <<>>)
JNum(n) == JV("number", <<>>, n, <<>>)
JArr(items) == JV("array", <<>>, 0, items)

JObj == JV("object", <<>>, 0, <<>>)

Entry(v, keys, name, path) == [v |-> v, keys |-> keys, name |-> name, path |-> path]

\* !v
Falsy(v) == \/ v.t \in {"null", "undefined"}
            \/ (v.t = "number" /\ v.n = 0)
            \/ (v.t = "string" /\ Len(v.s) = 0)

\* typeof v
TypeOf(v) == IF v.t \in {"object", "array", "null"} THEN "object" ELSE v.t

DigitChar(d) == <<"0", "1", "2", "3", "4", "5", "6", "7", "8", "9">>[d + 1]

RECURSIVE NatToStr(_)
NatToStr(n) == IF n < 10 THEN <<DigitChar(n)>>
               ELSE NatToStr(n \div 10) \o <<DigitChar(n % 10)>>

\* String(v) for a string or a non-negative integer.
ToStr(v) == IF v.t = "number" THEN NatToStr(v.n) ELSE v.s

isString(v) == v.t = "string"

OneOrNone(str) == IF Len(str) = 0 THEN <<>> ELSE <<str>>

toPathArray(maybePath) ==
    IF maybePath.t = "array"
    THEN LET NotNullish(v) == v.t # "null" /\ v.t # "undefined"
             NonEmpty(str) == Len(str) > 0
             Trimmed(kept) == [i \in 1..Len(kept) |-> Trim(ToStr(kept[i]))]
         IN SelectSeq(Trimmed(SelectSeq(maybePath.items, NotNullish)), NonEmpty)
    ELSE IF maybePath.t = "null" \/ maybePath.t = "undefined" THEN <<>>
    ELSE OneOrNone(Trim(ToStr(maybePath)))

\* A message of the run: [kind, index, name].
Msg(kind, index, name) == [kind |-> kind, index |-> index, name |-> name]

NoMsg == Msg("none", 0, <<>>)

Thrown(msg) == [threw |-> TRUE, msg |-> msg, results |-> <<>>]

RECURSIVE EnsureLoop(_, _, _)

\* EnsureItem without the test that skips an entry with no keys.
EnsureItem_NoSkip(value, index, results, item, paths) ==
    IF Falsy(item.v) \/ TypeOf(item.v) # "object"
    THEN Thrown(Msg("MustBeObject", index, <<>>))
    ELSE IF ~isString(item.name) \/ Len(Trim(ToStr(item.name))) = 0
    THEN Thrown(Msg("MissingName", index, <<>>))
    ELSE IF Len(paths) = 0
    THEN Thrown(Msg("NoValidPath", index, ToStr(item.name)))
    ELSE EnsureLoop(value, index + 1,
                    Append(results, [name |-> Trim(ToStr(item.name)), paths |-> paths]))

EnsureItem(value, index, results, item, paths) ==
    IF Falsy(item.v) \/ TypeOf(item.v) # "object"
    THEN Thrown(Msg("MustBeObject", index, <<>>))
    ELSE IF item.keys = 0 THEN EnsureLoop(value, index + 1, results)
    ELSE IF ~isString(item.name) \/ Len(Trim(ToStr(item.name))) = 0
    THEN Thrown(Msg("MissingName", index, <<>>))
    ELSE IF Len(paths) = 0
    THEN Thrown(Msg("NoValidPath", index, ToStr(item.name)))
    ELSE EnsureLoop(value, index + 1,
                    Append(results, [name |-> Trim(ToStr(item.name)), paths |-> paths]))

\* The for loop of ensureArrayOfArtifacts from the 0-based index on.
EnsureLoop(value, index, results) ==
    IF index >= Len(value) THEN [threw |-> FALSE, msg |-> NoMsg, results |-> results]
    ELSE EnsureItem(value, index, results, value[index + 1],
                    toPathArray(value[index + 1].path))

\* ensureArrayOfArtifacts that stops at the first malformed entry and returns
\* the definitions before it instead of throwing.
ensureArrayOfArtifacts_ValidPrefix(parsed) ==
    IF ~parsed.isArray THEN Thrown(Msg("NotArray", 0, <<>>))
    ELSE LET Good(k) == ~EnsureLoop(SubSeq(parsed.items, 1, k), 0, <<>>).threw
             k == CHOOSE n \in 0..Len(parsed.items) :
                      Good(n) /\ \A m \in 0..Len(parsed.items) : Good(m) => m <= n
         IN EnsureLoop(SubSeq(parsed.items, 1, k), 0, <<>>)

\* parsed is [isArray, items]: the value JSON.parse returned.
ensureArrayOfArtifacts(parsed) ==
    IF ~parsed.isArray THEN Thrown(Msg("NotArray", 0, <<>>))
    ELSE EnsureLoop(parsed.items, 0, <<>>)

(***************************************************************************)
(* Inputs of the action, as core.getInput returns them.                    *)
(***************************************************************************)
LowerChar(c) ==
    CASE c = "T" -> "t" [] c = "R" -> "r" [] c = "U" -> "u" [] c = "E" -> "e"
      [] c = "F" -> "f" [] c = "A" -> "a" [] c = "L" -> "l" [] c = "S" -> "s"
      [] OTHER -> c

\* String.prototype.toLowerCase
ToLower(s) == [i \in 1..Len(s) |-> LowerChar(s[i])]

Digits == {"0", "1", "2", "3", "4", "5", "6", "7", "8", "9"}

DigitVal(c) == CHOOSE d \in 0..9 : DigitChar(d) = c

RECURSIVE DigitPrefix(_, _, _)
DigitPrefix(s, i, acc) ==
    IF i > Len(s) \/ s[i] \notin Digits THEN [seen |-> i, val |-> acc]
    ELSE DigitPrefix(s, i + 1, acc * 10 + DigitVal(s[i]))

ParseDigits(neg, d) == [nan |-> d.seen = 1, val |-> IF neg THEN 0 - d.val ELSE d.val]

ParseSigned(t) ==
    ParseDigits(Len(t) > 0 /\ t[1] = "-",
                DigitPrefix(IF Len(t) > 0 /\ t[1] \in {"-", "+"} THEN Tail(t) ELSE t, 1, 0))

\* Number.parseInt(s, 10): optional sign, then the leading digits.
ParseInt(s) == ParseSigned(TrimLeft(s))

MinLevel == 0
MaxLevel == 9

Cwd == Workspace

(***************************************************************************)
(* The inputs the model draws from.                                        *)
(***************************************************************************)
Str_a == <<"a">>
Str_af == <<"a", "/", "f">>
Str_aStar == <<"a", "/", "*">>
Str_aGlobstar == <<"a", "/", "*", "*">>
Str_mGlobstar == <<"m", "/", "*", "*">>
Str_absH == <<"/", "t", "/", "h">>
Str_absDotDot == <<"/", "w", "/", "a", "/", ".", ".", "/", "a", "/", "f">>

PatternPool ==
    { Str_a, Str_af, Str_aStar, Str_aGlobstar, Str_mGlobstar, Str_absH, Str_absDotDot,
      <<"m">>, <<"e">>, <<"k">>, <<"u">>, <<"a", "/", "s">>,
      <<"a", "/", "l">>, <<"a", "/", "j">> }

SeqsUpTo(S, n) == UNION {[1..k -> S] : k \in 0..n}

PatternLists == SeqsUpTo(PatternPool, MaxPats) \ {<<>>}

EntryPool ==
    { Entry(JNull, 0, JUndef, JUndef),
      Entry(JNum(7), 0, JUndef, JUndef),
      Entry(JObj, 0, JUndef, JUndef),
      Entry(JArr(<<>>), 0, JUndef, JUndef),
      Entry(JObj, 1, JUndef, JStr(Str_a)),
      Entry(JObj, 2, JNum(5), JStr(Str_a)),
      Entry(JObj, 2, JStr(<<" ">>), JStr(Str_a)),
      Entry(JObj, 2, JStr(<<"p">>), JArr(<<JStr(<<" ">>), JNull>>)),
      Entry(JObj, 2, JStr(<<" ", "r", " ">>), JStr(Str_a)),
      Entry(JObj, 2, JStr(<<"x">>), JArr(<<JStr(Str_aStar), JStr(Str_absH)>>)),
      Entry(JObj, 2, JStr(<<"z">>), JArr(<<JStr(Str_mGlobstar)>>)),
      Entry(JObj, 2, JStr(<<"y">>), JArr(<<JStr(<<"e">>), JNull, JStr(<<" ", "k">>)>>)) }

ConfigChoices ==
    { [file |-> f, parsed |-> [isArray |-> FALSE, items |-> <<>>]] :
          f \in {"unset", "missing", "badjson", "ok"} }
    \cup { [file |-> "ok", parsed |-> [isArray |-> TRUE, items |-> items]] :
               items \in SeqsUpTo(EntryPool, MaxDefs) }

CoeChoices == {<<>>, <<"t", "r", "u", "e">>, <<"T", "r", "u", "e">>, <<"n", "o">>}

CompressionChoices == {<<>>, <<"6">>, <<"1", "2">>, <<"x">>}

(***************************************************************************)
(* State.                                                                  *)
(***************************************************************************)
VARIABLES
    fsys,             \* the filesystem
    inConfig,         \* the config input and what the file holds
    inCoe,            \* the continue-on-error input
    inCompression,    \* the compression-level input
    pc,               \* where run() stands
    continueOnError,
    compressionLevel, \* [set, val]: unset is undefined
    artifacts,        \* the validated definitions
    idx,              \* position of the for loop over artifacts, from 1
    resolveCalls,     \* calls of resolveInputPathsToFiles: [idx, name, threw, files]
    rootCalls,        \* arguments of the calls of computeCommonRootDirectory
    uploads,          \* calls of client.uploadArtifact
    warnings,         \* core.warning
    infos,            \* core.info
    failure,          \* core.setFailed, NoMsg while not called
    fnArgs,           \* arguments of a direct call of resolveInputPathsToFiles
    fnOut,            \* what that call returned
    fnRoot            \* computeCommonRootDirectory of the returned files

vars == << fsys, inConfig, inCoe, inCompression, pc, continueOnError, compressionLevel,
           artifacts, idx, resolveCalls, rootCalls, uploads, warnings, infos, failure,
           fnArgs, fnOut, fnRoot >>

inputVars == <<fsys, inConfig, inCoe, inCompression>>
fnVars == <<fnArgs, fnOut, fnRoot>>

NoOut == [threw |-> FALSE, files |-> <<>>, warns |-> <<>>]

Blank ==
    /\ continueOnError = FALSE
    /\ compressionLevel = [set |-> FALSE, val |-> 0]
    /\ artifacts = <<>>
    /\ idx = 1
    /\ resolveCalls = <<>>
    /\ rootCalls = <<>>
    /\ uploads = <<>>
    /\ warnings = <<>>
    /\ infos = <<>>
    /\ failure = NoMsg

Init ==
    /\ fsys \in FsChoices
    /\ inConfig \in ConfigChoices
    /\ inCoe \in CoeChoices
    /\ inCompression \in CompressionChoices
    /\ pc = "start"
    /\ Blank
    /\ fnArgs = <<>>
    /\ fnOut = NoOut
    /\ fnRoot = <<>>

(***************************************************************************)
(* run(): from the inputs to the start of the loop over the artifacts.     *)
(***************************************************************************)
Fail(msg) ==
    /\ failure' = msg
    /\ pc' = "done"

\* const artifacts = ensureArrayOfArtifacts(parsed), and the test for none.
Validated(ens) ==
    IF ens.threw THEN Fail(ens.msg) /\ UNCHANGED <<artifacts, infos>>
    ELSE /\ artifacts' = ens.results
         /\ infos' = IF Len(ens.results) = 0
                     THEN Append(infos, Msg("NothingToUpload", 0, <<>>)) ELSE infos
         /\ pc' = IF Len(ens.results) = 0 THEN "done" ELSE "loop"
         /\ failure' = failure

Configured(coe, hasLevel, parsed) ==
    IF inConfig.file = "unset"
    THEN /\ Fail(Msg("InputRequired", 0, <<>>))
         /\ UNCHANGED <<artifacts, infos, continueOnError, compressionLevel>>
    ELSE /\ continueOnError' = coe
         /\ IF hasLevel /\ (parsed.nan \/ parsed.val < MinLevel \/ parsed.val > MaxLevel)
            THEN /\ Fail(Msg("BadCompressionLevel", 0, <<>>))
                 /\ UNCHANGED <<artifacts, infos, compressionLevel>>
            ELSE /\ compressionLevel' = IF hasLevel THEN [set |-> TRUE, val |-> parsed.val]
                                        ELSE compressionLevel
                 /\ IF inConfig.file = "missing"
                    THEN Fail(Msg("ConfigNotFound", 0, <<>>)) /\ UNCHANGED <<artifacts, infos>>
                    ELSE IF inConfig.file = "badjson"
                    THEN Fail(Msg("InvalidJSON", 0, <<>>)) /\ UNCHANGED <<artifacts, infos>>
                    ELSE Validated(ensureArrayOfArtifacts(inConfig.parsed))

Configure ==
    /\ pc = "start"
    /\ Configured(ToLower(IF Len(inCoe) = 0 THEN <<"f", "a", "l", "s", "e">> ELSE inCoe)
                      = <<"t", "r", "u", "e">>,
                  Len(Trim(inCompression)) > 0,
                  ParseInt(inCompression))
    /\ UNCHANGED <<idx, resolveCalls, rootCalls, uploads, warnings>>
    /\ UNCHANGED inputVars
    /\ UNCHANGED fnVars

(***************************************************************************)
(* run(): one turn of the loop, up to the call of the uploader.            *)
(***************************************************************************)
\* ZeroFiles that never sees an empty set.
ZeroFiles_Never(files) == FALSE

\* files.length === 0
ZeroFiles(files) == Len(files) = 0

\* AbortsOnZero that always takes the continue.
AbortsOnZero_Never(coe) == FALSE

\* The branch on continueOnError: TRUE for the throw, FALSE for the continue.
AbortsOnZero(coe) == ~coe

\* afterThrow with the catch inside the loop: the loop goes on.
afterThrow_InLoop(i, n) == [pc |-> IF i < n THEN "loop" ELSE "done", idx |-> i + 1]

\* Where an error thrown in turn i of n leaves the run: the catch is around
\* the whole loop.
afterThrow(i, n) == [pc |-> "done", idx |-> i]

\* Where the end of turn i of n leaves the run.
afterTurn(i, n) == [pc |-> IF i < n THEN "loop" ELSE "done", idx |-> i + 1]

uploadOptions(coe, level) ==
    [continueOnError |-> coe, hasLevel |-> level.set, level |-> level.val]

Thrower(msg, thrown, warns) ==
    /\ failure' = msg
    /\ pc' = thrown.pc
    /\ idx' = thrown.idx
    /\ warnings' = warnings \o warns
    /\ UNCHANGED <<rootCalls, uploads, infos>>

Resolved(def, r) ==
    /\ resolveCalls' = Append(resolveCalls,
           [idx |-> idx, name |-> def.name, threw |-> r.threw, files |-> r.files])
    /\ IF r.threw
       THEN Thrower(Msg("ResolveError", idx, def.name),
                    afterThrow(idx, Len(artifacts)), r.warns)
       ELSE IF ZeroFiles(r.files)
       THEN IF AbortsOnZero(continueOnError)
            THEN Thrower(Msg("NoFiles", idx, def.name),
                         afterThrow(idx, Len(artifacts)), r.warns)
            ELSE /\ warnings' = (warnings \o r.warns) \o Warn("NoFiles", def.name)
                 /\ pc' = afterTurn(idx, Len(artifacts)).pc
                 /\ idx' = afterTurn(idx, Len(artifacts)).idx
                 /\ UNCHANGED <<rootCalls, uploads, infos, failure>>
       ELSE /\ rootCalls' = Append(rootCalls, r.files)
            /\ infos' = Append(infos, Msg("Uploading", Len(r.files), def.name))
            /\ uploads' = Append(uploads,
                   [idx |-> idx, name |-> def.name, files |-> r.files,
                    root |-> computeCommonRootDirectory(Cwd, r.files),
                    options |-> uploadOptions(continueOnError, compressionLevel)])
            /\ warnings' = warnings \o r.warns
            /\ pc' = "uploading"
            /\ UNCHANGED <<idx, failure>>

ResolveArtifact ==
    /\ pc = "loop"
    /\ Resolved(artifacts[idx],
                resolveInputPathsToFiles(fsys, Workspace, artifacts[idx].paths))
    /\ UNCHANGED <<continueOnError, compressionLevel, artifacts>>
    /\ UNCHANGED inputVars
    /\ UNCHANGED fnVars

\* client.uploadArtifact returns.
UploadReturn ==
    /\ pc = "uploading"
    /\ infos' = Append(infos, Msg("Uploaded", idx, artifacts[idx].name))
    /\ pc' = afterTurn(idx, Len(artifacts)).pc
    /\ idx' = afterTurn(idx, Len(artifacts)).idx
    /\ UNCHANGED <<continueOnError, compressionLevel, artifacts, resolveCalls, rootCalls,
                   uploads, warnings, failure>>
    /\ UNCHANGED inputVars
    /\ UNCHANGED fnVars

\* client.uploadArtifact throws.
UploadThrow ==
    /\ pc = "uploading"
    /\ failure' = Msg("UploadError", idx, artifacts[idx].name)
    /\ pc' = afterThrow(idx, Len(artifacts)).pc
    /\ idx' = afterThrow(idx, Len(artifacts)).idx
    /\ UNCHANGED <<continueOnError, compressionLevel, artifacts, resolveCalls, rootCalls,
                   uploads, warnings, infos>>
    /\ UNCHANGED inputVars
    /\ UNCHANGED fnVars

Next == Configure \/ ResolveArtifact \/ UploadReturn \/ UploadThrow

Spec == Init /\ [][Next]_vars

(***************************************************************************)
(* resolveInputPathsToFiles and computeCommonRootDirectory called on their *)
(* own, over every list of patterns of the pool.                           *)
(***************************************************************************)
InitFn ==
    /\ fsys \in FsChoices
    /\ fnArgs \in PatternLists
    /\ inConfig = [file |-> "unset", parsed |-> [isArray |-> FALSE, items |-> <<>>]]
    /\ inCoe = <<>>
    /\ inCompression = <<>>
    /\ pc = "fn"
    /\ Blank
    /\ fnOut = NoOut
    /\ fnRoot = <<>>

FnResolve ==
    /\ pc = "fn"
    /\ fnOut' = resolveInputPathsToFiles(fsys, Workspace, fnArgs)
    /\ pc' = "fnResolved"
    /\ UNCHANGED <<fnArgs, fnRoot>>
    /\ UNCHANGED inputVars
    /\ UNCHANGED <<continueOnError, compressionLevel, artifacts, idx, resolveCalls,
                   rootCalls, uploads, warnings, infos, failure>>

FnRoot ==
    /\ pc = "fnResolved"
    /\ ~fnOut.threw
    /\ Len(fnOut.files) > 0
    /\ fnRoot' = computeCommonRootDirectory(Cwd, fnOut.files)
    /\ pc' = "fnRooted"
    /\ UNCHANGED <<fnArgs, fnOut>>
    /\ UNCHANGED inputVars
    /\ UNCHANGED <<continueOnError, compressionLevel, artifacts, idx, resolveCalls,
                   rootCalls, uploads, warnings, infos, failure>>

NextFn == FnResolve \/ FnRoot

SpecResolve == InitFn /\ [][NextFn]_vars

(***************************************************************************)
(* Definitions the properties below are stated with.                       *)
(***************************************************************************)
FnReturned == pc \in {"fnResolved", "fnRooted"} /\ ~fnOut.threw

\* The files one pattern contributes when it is resolved on its own.
Alone(k) == resolveInputPathsToFiles(fsys, Workspace, <<fnArgs[k]>>)

\* The segments of an absolute path, "." and ".." resolved.
SegsOf(p) == NormSegs(Split(p), <<>>, FALSE)

IsPrefix(a, b) == Len(a) <= Len(b) /\ SubSeq(b, 1, Len(a)) = a

ParentSegs(files) == {SegsOf(Dirname(files[i])) : i \in 1..Len(files)}

\* root is a directory at or above the parent of every file, and no deeper
\* directory is.
DeepestCommonAncestor(root, files) ==
    /\ IsAbsolute(root)
    /\ \A d \in ParentSegs(files) : IsPrefix(SegsOf(root), d)
    /\ \A d \in ParentSegs(files) : \A n \in 0..Len(d) :
           (\A e \in ParentSegs(files) : IsPrefix(SubSeq(d, 1, n), e))
               => n <= Len(SegsOf(root))

NamesIn(fs) == {Basename(fs[i].path) : i \in 2..Len(fs)}

\* The regular files at or below abs when every symbolic link is followed.
FollowedFiles(fs, abs) ==
    LET below == {abs} \cup {abs \o <<Sep>> \o n : n \in NamesIn(fs)}
                 \cup {abs \o <<Sep>> \o n \o <<Sep>> \o m : n \in NamesIn(fs), m \in NamesIn(fs)}
    IN {p \in below : Walk(fs, p, TRUE).ok /\ NodeAt(fs, Walk(fs, p, TRUE).path).type = "file"}

ConfigKinds == {"InputRequired", "BadCompressionLevel", "ConfigNotFound", "InvalidJSON",
                "NotArray", "MustBeObject", "MissingName", "NoValidPath"}

ConfigItems == inConfig.parsed.items

ListGiven == inConfig.file = "ok" /\ inConfig.parsed.isArray

IsEmptyObject(item) == item.v.t = "object" /\ item.keys = 0

HasNoKeys(item) == item.v.t \in {"object", "array"} /\ item.keys = 0

\* An entry that is not an object, or has keys but no non-blank string name
\* or no non-empty pattern.
Malformed(item) ==
    \/ item.v.t \notin {"object", "array"}
    \/ /\ item.keys > 0
       /\ \/ item.name.t # "string"
          \/ Trim(item.name.s) = <<>>
          \/ toPathArray(item.path) = <<>>

WellFormed(item) == ~Malformed(item) /\ ~HasNoKeys(item)

ZeroFileCalls == {k \in 1..Len(resolveCalls) :
                      ~resolveCalls[k].threw /\ Len(resolveCalls[k].files) = 0}

UploadedIdx == {uploads[k].idx : k \in 1..Len(uploads)}

(***************************************************************************)
(* C1: with continueOnError = false, once a definition resolves to zero    *)
(* files the run is over: that call is the last resolution, no upload call *)
(* exists for that definition or a later one, and the run has failed with  *)
(* the message that names the artifact.                                    *)
(***************************************************************************)
Thm_C1_AbortOnZeroFiles ==
    \A k \in ZeroFileCalls :
        ~continueOnError =>
            /\ k = Len(resolveCalls)
            /\ pc = "done"
            /\ failure = Msg("NoFiles", resolveCalls[k].idx, resolveCalls[k].name)
            /\ \A i \in UploadedIdx : i < resolveCalls[k].idx

Wit_C1_AbortWithLaterDefinition ==
    /\ ~continueOnError
    /\ ZeroFileCalls # {}
    /\ failure.kind = "NoFiles"
    /\ failure.index < Len(artifacts)

(***************************************************************************)
(* C2, as stated: a run that aborts because a definition resolved to zero  *)
(* files with continueOnError = false has made no upload call at all.      *)
(***************************************************************************)
Cex_C2_NoUploadAtAllOnAbort ==
    (pc = "done" /\ failure.kind = "NoFiles") => Len(uploads) = 0

(***************************************************************************)
(* C2, amended: in a run that aborts because definition i resolved to zero *)
(* files with continueOnError = false, the upload calls made are exactly   *)
(* those of the definitions before i that resolved to a non-empty set:     *)
(* none for i, none for a later definition.                                *)
(***************************************************************************)
Thm_C2_UploadsOnlyBeforeAbort ==
    failure.kind = "NoFiles" =>
        /\ ~continueOnError
        /\ Len(resolveCalls) = failure.index
        /\ UploadedIdx =
              {resolveCalls[k].idx : k \in (1..Len(resolveCalls)) \ ZeroFileCalls}
        /\ \A i \in UploadedIdx : i < failure.index

Wit_C2_AbortAfterUpload ==
    /\ pc = "done"
    /\ failure.kind = "NoFiles"
    /\ Len(uploads) > 0

(***************************************************************************)
(* C3: the root computed for a non-empty resolved file set is a directory  *)
(* at or above the parent of every file, and the deepest one; for parents  *)
(* that share no named segment it is the filesystem root.                  *)
(***************************************************************************)
Cex_C3_RootIsDeepestCommonAncestor ==
    pc = "fnRooted" => DeepestCommonAncestor(fnRoot, fnOut.files)

(***************************************************************************)
(* C4: resolveInputPathsToFiles never fails outright: whatever the         *)
(* patterns and the filesystem, it returns a file set.                     *)
(***************************************************************************)
Cex_C4_ResolveNeverThrows ==
    pc \in {"fnResolved", "fnRooted"} => ~fnOut.threw

(***************************************************************************)
(* C5: with continueOnError = true a definition that resolves to zero      *)
(* files is skipped with a warning naming it and is not uploaded, the      *)
(* later definitions are still resolved, and the run ends failed if and    *)
(* only if the configuration was in error or the uploader failed.          *)
(***************************************************************************)
Cex_C5_FailedIffFatalCondition ==
    (pc = "done" /\ continueOnError) =>
        /\ \A k \in ZeroFileCalls :
               /\ \E w \in 1..Len(warnings) : warnings[w] = <<"NoFiles", resolveCalls[k].name>>
               /\ resolveCalls[k].idx \notin UploadedIdx
        /\ failure = NoMsg => Len(resolveCalls) = Len(artifacts)
        /\ failure # NoMsg <=> failure.kind \in ConfigKinds \cup {"UploadError"}

Thm_C7_EmptyObjectIgnored ==
    (pc # "start" /\ ListGiven /\ failure.kind # "BadCompressionLevel") =>
        LET NotEmpty(item) == ~IsEmptyObject(item)
            with == ensureArrayOfArtifacts(inConfig.parsed)
            without == ensureArrayOfArtifacts(
                           [isArray |-> TRUE, items |-> SelectSeq(ConfigItems, NotEmpty)])
        IN /\ with.threw = without.threw
           /\ with.results = without.results
           /\ with.msg.kind = without.msg.kind
           /\ with.msg.name = without.msg.name
           /\ ~without.threw => artifacts = without.results
           /\ without.threw => failure.kind = without.msg.kind
           /\ (\A i \in 1..Len(ConfigItems) : IsEmptyObject(ConfigItems[i])) =>
                  /\ pc = "done"
                  /\ failure = NoMsg
                  /\ resolveCalls = <<>>
                  /\ uploads = <<>>

Wit_C7_EmptyObjectBesideUpload ==
    /\ pc = "done"
    /\ failure = NoMsg
    /\ Len(ConfigItems) = 2
    /\ IsEmptyObject(ConfigItems[1])
    /\ WellFormed(ConfigItems[2])
    /\ Len(uploads) = 1

(***************************************************************************)
(* C8: the returned file set holds each file once under normalization,     *)
(* and is the union of what each pattern contributes on its own.           *)
(***************************************************************************)
Thm_C8_DedupAndUnion ==
    FnReturned =>
        /\ \A i, j \in 1..Len(fnOut.files) :
               Normalize(fnOut.files[i]) = Normalize(fnOut.files[j]) => i = j
        /\ Range(fnOut.files) = UNION {Range(Alone(k).files) : k \in 1..Len(fnArgs)}

Wit_C8_TwoPatternsShareAFile ==
    /\ pc = "fnResolved"
    /\ ~fnOut.threw
    /\ Len(fnArgs) = 2
    /\ fnArgs[1] # fnArgs[2]
    /\ hasGlobChars(fnArgs[1]) /\ ~hasGlobChars(fnArgs[2])
    /\ Range(Alone(1).files) \cap Range(Alone(2).files) # {}

(***************************************************************************)
(* C9: a literal pattern that is readable yields every regular file at or  *)
(* below it with symbolic links followed: through a linked file, through a *)
(* linked subdirectory, and when the pattern itself is a link.             *)
(***************************************************************************)
Cex_C9_WalkFollowsLinks ==
    (FnReturned /\ Len(fnArgs) = 1 /\ ~hasGlobChars(fnArgs[1])
        /\ ~IsAbsolute(fnArgs[1])
        /\ pathExists(fsys, PathJoin(Workspace, fnArgs[1]))) =>
        FollowedFiles(fsys, PathJoin(Workspace, fnArgs[1])) \subseteq Range(fnOut.files)

(***************************************************************************)
(* C10: upload calls follow the order of the validated definitions, at     *)
(* most one per definition; each carries the non-empty file set resolved   *)
(* for its definition, and so does each call of                            *)
(* computeCommonRootDirectory.                                             *)
(***************************************************************************)
Thm_C10_UploadsInOrderNonEmpty ==
    /\ \A i, j \in 1..Len(uploads) : i < j => uploads[i].idx < uploads[j].idx
    /\ \A k \in 1..Len(uploads) :
           LET u == uploads[k] IN
           /\ u.idx \in 1..Len(artifacts)
           /\ u.name = artifacts[u.idx].name
           /\ Len(u.files) > 0
           /\ u.files = resolveInputPathsToFiles(fsys, Workspace, artifacts[u.idx].paths).files
           /\ \E c \in 1..Len(resolveCalls) :
                  /\ resolveCalls[c].idx = u.idx
                  /\ ~resolveCalls[c].threw
                  /\ resolveCalls[c].files = u.files
    /\ Len(rootCalls) = Len(uploads)
    /\ \A k \in 1..Len(rootCalls) :
           Len(rootCalls[k]) > 0 /\ rootCalls[k] = uploads[k].files

Wit_C10_TwoUploadsInOrder ==
    /\ Len(uploads) = 2
    /\ uploads[1].idx = 1
    /\ uploads[2].idx = 2

====
